---- MODULE Spec2Model ----
(***************************************************************************)
(* Model of the Delhi coordinate collectors:                               *)
(*   delhi_residential_coordinates.py, delhi_shopping_coordinates.py,      *)
(*   delhi_educational_coordinates.py.                                     *)
(*                                                                         *)
(* Geography is modelled on an integer lattice.  One lattice step stands   *)
(* for the 0.009 degree that the sampler uses per kilometre, and the       *)
(* literal coordinates of the scripts (bounding box, centre, radius, hub   *)
(* list, minimum distances) are scaled down to that lattice so that every  *)
(* branch of the rejection loop (out of bounds, too close, accepted) is    *)
(* taken.  Random draws are nondeterministic choices.                      *)
(***************************************************************************)
EXTENDS Integers, Sequences, FiniteSets, TLC

(* ---------------- bounds of the model ---------------- *)

\* min_locations, the requested number of points (1000 in the scripts)
MinLocations == 3

\* longest 'elements' list of a response to the residential or shopping
\* query: long enough to hold more than min_locations places
MaxElements == MinLocations + 1

\* longest 'elements' list of a response to an educational query
MaxEduElements == 2

\* longest hub list the hub walk is run on by itself
MaxHubs == 3

\* longest seed list and largest count of a generator call made by itself
MaxSeeds == 1
MaxCount == 2

(* ---------------- literals of the scripts, on the lattice ---------------- *)

\* bounding box of the "within Delhi bounds" test
LatMin == 2
LatMax == 4
LonMin == 2
LonMax == 5

\* delhi_center=(28.6139, 77.2090) and radius_km=20 of the callers
delhi_center == <<3, 4>>
radius_km == 2

\* min_distance: default of the generator, and the value of the top-up call
DefaultMinDistance == 2
TopUpMinDistance == 3

\* max_attempts = count * 5
AttemptFactor == 5

\* bounds of random.uniform(0.7, 1.3) and random.uniform(0.8, 1.2), in tenths
Jitter == {7, 10, 13}
HubJitter == {8, 10, 12}

\* commercial_hubs: two of the hubs of the script, the densest and the
\* least dense, both well inside the bounding box
commercial_hubs ==
    << [name |-> "Connaught Place", center |-> <<4, 4>>, density |-> 10],
       [name |-> "Dwarka",          center |-> <<3, 3>>, density |-> 6] >>

(* ---------------- helpers ---------------- *)

Range(s) == {s[i] : i \in DOMAIN s}

RECURSIVE SumDensity(_)
SumDensity(hubs) ==
    IF hubs = <<>> THEN 0 ELSE Head(hubs).density + SumDensity(Tail(hubs))

\* total_density = sum(hub["density"] for hub in commercial_hubs)
total_density == SumDensity(commercial_hubs)

\* integer square root
ISqrt(n) == CHOOSE r \in 0..n : r * r <= n /\ n < (r + 1) * (r + 1)

\* geodesic(a, b).kilometers, in lattice steps (rounded down)
geodesic(a, b) ==
    ISqrt((a[1] - b[1]) * (a[1] - b[1]) + (a[2] - b[2]) * (a[2] - b[2]))

\* mutant of InBounds: the longitude test is left out
InBoundsLatOnly(lat, lon) == LatMin <= lat /\ lat <= LatMax

\* 28.40 <= new_lat <= 28.80 and 76.95 <= new_lon <= 77.40
InBounds(lat, lon) ==
    LatMin <= lat /\ lat <= LatMax /\ LonMin <= lon /\ lon <= LonMax

\* mutant of TooClose: the loop leaves after the first coordinate
TooCloseFirstOnly(new, coords, md) ==
    coords # <<>> /\ geodesic(new, coords[1]) < md

\* the loop over existing_coords that sets too_close
TooClose(new, coords, md) ==
    \E i \in DOMAIN coords : geodesic(new, coords[i]) < md

\* distance * 0.009 * random.uniform(lo, hi), negated when random() > 0.5
Offset(distance, jitter, negate) ==
    LET off == (distance * jitter) \div 10
    IN  IF negate THEN 0 - off ELSE off

\* one candidate drawn around a centre
SampleNear(center, distance, jlat, jlon, nlat, nlon) ==
    << center[1] + Offset(distance, jlat, nlat),
       center[2] + Offset(distance, jlon, nlon) >>

\* mutant of WalkHubs: the test is rand_value < cumulative
RECURSIVE WalkHubsStrict(_, _, _, _)
WalkHubsStrict(hubs, cumulative, r, selected) ==
    IF hubs = <<>> THEN selected
    ELSE IF r < cumulative + Head(hubs).density THEN Head(hubs)
    ELSE WalkHubsStrict(Tail(hubs), cumulative + Head(hubs).density, r, selected)

\* the hub walk "for hub in commercial_hubs": cumulative += hub["density"];
\* the first hub with rand_value <= cumulative is selected and the loop left;
\* selected is the value selected_hub has when no hub passes the test
RECURSIVE WalkHubs(_, _, _, _)
WalkHubs(hubs, cumulative, r, selected) ==
    IF hubs = <<>> THEN selected
    ELSE IF r <= cumulative + Head(hubs).density THEN Head(hubs)
    ELSE WalkHubs(Tail(hubs), cumulative + Head(hubs).density, r, selected)

\* selected_hub = commercial_hubs[0], then the walk
SelectHub(r) == WalkHubs(commercial_hubs, 0, r, commercial_hubs[1])

\* hub_radius = 2.0 * (11 - density) / 10.0
HubRadius(hub) == (2 * (11 - hub.density)) \div 10

\* candidates of the residential generator (and of the background branch)
BackgroundCandidates ==
    { SampleNear(delhi_center, d, jlat, jlon, nlat, nlon) :
        d \in 0..radius_km, jlat \in Jitter, jlon \in Jitter,
        nlat \in BOOLEAN, nlon \in BOOLEAN }

\* candidates of the hub branch of the shopping generator
HubCandidates ==
    UNION { { SampleNear(SelectHub(r).center, d, jlat, jlon, nlat, nlon) :
                d \in 0..HubRadius(SelectHub(r)),
                jlat \in HubJitter, jlon \in HubJitter,
                nlat \in BOOLEAN, nlon \in BOOLEAN } :
            r \in 0..total_density }

\* candidates the generator of a script can draw in one iteration
Candidates(v) ==
    IF v = "shopping" THEN HubCandidates \cup BackgroundCandidates
    ELSE BackgroundCandidates

(* ---------------- the Overpass response ---------------- *)

\* a field of an element: a number, JSON null, or no such key
Num(n) == [k |-> "num", v |-> n]
NullField == [k |-> "null", v |-> 0]
NoField == [k |-> "missing", v |-> 0]

\* an element: center = TRUE when it has a 'center' object, and lat, lon are
\* then the fields of that object; otherwise they are its own fields
Node(lat, lon) == [center |-> FALSE, lat |-> lat, lon |-> lon]
Way(lat, lon) == [center |-> TRUE, lat |-> lat, lon |-> lon]

\* the elements a response to a query for the area of Delhi is built from
ElementSet ==
    { Node(Num(3), Num(3)),        \* a node inside the box
      Way(Num(6), Num(4)),         \* a way of Delhi north of the box
      Node(Num(2), Num(2)),        \* a node on the corner of the box
      Way(Num(4), Num(5)),         \* a way on the opposite corner
      Node(NoField, Num(4)),       \* a node without 'lat'
      Way(Num(3), NullField),      \* a way whose center has "lon": null
      Way(NoField, Num(4)) }       \* a way whose center has no 'lat'

RECURSIVE SeqsUpTo(_, _)
SeqsUpTo(S, n) ==
    IF n = 0 THEN {<<>>}
    ELSE LET shorter == SeqsUpTo(S, n - 1)
         IN  shorter \cup { Append(s, e) : s \in shorter, e \in S }

Responses == SeqsUpTo(ElementSet, MaxElements)

EduResponses == SeqsUpTo(ElementSet, MaxEduElements)

\* element['center']['lat'] raises KeyError when the key is absent
RaisesKeyError(e) == e.center /\ (e.lat.k = "missing" \/ e.lon.k = "missing")

\* "if lat and lon": None and 0 are both false
Truthy(f) == f.k = "num" /\ f.v # 0

\* the body of the loop over data['elements'] for one element
KeepsElement(e) == Truthy(e.lat) /\ Truthy(e.lon)

\* one pass of the body of "for element in data.get('elements', [])":
\* raised = TRUE when the element makes it raise, coordinates = the list after it
ExtractElement(e, acc) ==
    IF RaisesKeyError(e) THEN [raised |-> TRUE, coordinates |-> acc]
    ELSE IF KeepsElement(e)
         THEN [raised |-> FALSE,
               coordinates |-> Append(acc, [latitude |-> e.lat.v,
                                            longitude |-> e.lon.v])]
         ELSE [raised |-> FALSE, coordinates |-> acc]

\* the whole loop
RECURSIVE ExtractCoordinates(_, _)
ExtractCoordinates(elems, acc) ==
    IF elems = <<>> THEN [raised |-> FALSE, coordinates |-> acc]
    ELSE LET r == ExtractElement(Head(elems), acc)
         IN  IF r.raised THEN r
             ELSE ExtractCoordinates(Tail(elems), r.coordinates)

(* ---------------- pandas ---------------- *)

\* df.drop_duplicates(): the first occurrence of every row, in order
RECURSIVE DropDuplicatesFrom(_, _)
DropDuplicatesFrom(rows, kept) ==
    IF rows = <<>> THEN kept
    ELSE IF Head(rows) \in Range(kept) THEN DropDuplicatesFrom(Tail(rows), kept)
    ELSE DropDuplicatesFrom(Tail(rows), Append(kept, Head(rows)))

\* mutant of drop_duplicates: the call is left out
KeepDuplicates(rows) == rows

drop_duplicates(rows) == DropDuplicatesFrom(rows, <<>>)

\* mutant of head: the frame is not limited
HeadUnlimited(rows, n) == rows

\* df.head(n)
head(rows, n) == IF Len(rows) > n THEN SubSeq(rows, 1, n) ELSE rows

\* mutant of to_dict_records: the last row is lost
RecordsButLast(rows) == SubSeq(rows, 1, Len(rows) - 1)

\* df.to_dict('records'): the rows of the frame, in order
to_dict_records(rows) == rows

\* [(loc['latitude'], loc['longitude']) for loc in existing_coordinates]
ToTuples(rows) == [i \in DOMAIN rows |-> <<rows[i].latitude, rows[i].longitude>>]

\* get_known_institutions(): the literal list, which repeats one coordinate
\* pair (Ambedkar University Delhi and St. Stephen's College)
known_institutions ==
    << [latitude |-> 4, longitude |-> 4],
       [latitude |-> 3, longitude |-> 2],
       [latitude |-> 4, longitude |-> 4] >>

(* ---------------- state ---------------- *)

VARIABLES
    variant,                \* which script runs
    pc,                     \* position in the script
    status,                 \* outcome of requests.post / response.json()
    data,                   \* the elements of data the extraction loop has yet to visit
    coordinates,            \* coordinates (real_coordinates in the educational script)
    synthetic_coordinates,  \* result of the first generator call
    df,                     \* the data frame
    more_synthetic,         \* result of the second generator call
    csv,                    \* the rows written by df.to_csv
    count,                  \* generator: parameter count
    min_distance,           \* generator: parameter min_distance
    existing_coords,        \* generator: working list of (lat, lon) tuples
    synthetic,              \* generator: result list
    attempts,               \* generator: attempt counter
    hub_list,               \* hub walk: the list of hubs walked
    rand_value,             \* hub walk: random.uniform(0, total_density)
    selected_hub            \* hub walk: selected_hub

vars == << variant, pc, status, data, coordinates, synthetic_coordinates, df,
           more_synthetic, csv, count, min_distance, existing_coords,
           synthetic, attempts, hub_list, rand_value, selected_hub >>

\* the hub walk is observed step by step in HubSpec; in the runs of the
\* scripts it is part of the draw of a candidate (HubCandidates)
walk == << hub_list, rand_value, selected_hub >>

assembler == << variant, status, data, coordinates, synthetic_coordinates, df,
                more_synthetic, csv >>

locals == << count, min_distance, existing_coords, synthetic, attempts, walk >>

Variants == {"residential", "shopping", "educational"}

\* ways the try block fails: status code other than 200, requests.post
\* raises, response.json() raises
Failures == {"status_code", "request_error", "json_error"}

Init ==
    /\ variant \in Variants
    /\ pc = "fetch"
    /\ status = "none"
    /\ data = <<>>
    /\ coordinates = <<>>
    /\ synthetic_coordinates = <<>>
    /\ df = <<>>
    /\ more_synthetic = <<>>
    /\ csv = <<>>
    /\ count = 0
    /\ min_distance = 0
    /\ existing_coords = <<>>
    /\ synthetic = <<>>
    /\ attempts = 0
    /\ hub_list = commercial_hubs
    /\ rand_value = 0
    /\ selected_hub = commercial_hubs[1]

(* ---------------- generate_synthetic_coordinates ---------------- *)

\* max_attempts = count * 5
max_attempts(c) == c * AttemptFactor

\* mutant of LoopCond: <= instead of < on the length
LoopCondOneMore(syn, c, att) == Len(syn) <= c /\ att < c * AttemptFactor

\* while len(synthetic) < count and attempts < max_attempts
LoopCond(syn, c, att) == Len(syn) < c /\ att < max_attempts(c)

\* entry of the function: the locals before the loop
Call(existing_coordinates, c, md) ==
    /\ synthetic' = <<>>
    /\ existing_coords' = ToTuples(existing_coordinates)
    /\ attempts' = 0
    /\ count' = c
    /\ min_distance' = md
    /\ UNCHANGED walk

\* the frame of the function is gone after it returned
Leave ==
    /\ synthetic' = <<>>
    /\ existing_coords' = <<>>
    /\ attempts' = 0
    /\ count' = 0
    /\ min_distance' = 0
    /\ UNCHANGED walk

\* mutant of GenIterate: attempts is incremented after the two continue
\* statements, so only an accepted candidate counts
GenIterateCountsAccepted ==
    /\ pc \in {"gen1", "gen2"}
    /\ LoopCond(synthetic, count, attempts)
    /\ \E new \in Candidates(variant) :
         IF ~InBounds(new[1], new[2])
         THEN UNCHANGED << synthetic, existing_coords, attempts >>
         ELSE IF TooClose(new, existing_coords, min_distance)
         THEN UNCHANGED << synthetic, existing_coords, attempts >>
         ELSE /\ synthetic' = Append(synthetic,
                                [latitude |-> new[1], longitude |-> new[2]])
              /\ existing_coords' = Append(existing_coords, new)
              /\ attempts' = attempts + 1
    /\ UNCHANGED << pc, count, min_distance, walk >>
    /\ UNCHANGED assembler

\* mutant of GenIterate: an accepted candidate is not added to existing_coords
GenIterateNoWorkingAppend ==
    /\ pc \in {"gen1", "gen2"}
    /\ LoopCond(synthetic, count, attempts)
    /\ attempts' = attempts + 1
    /\ \E new \in Candidates(variant) :
         IF ~InBounds(new[1], new[2])
         THEN UNCHANGED << synthetic, existing_coords >>
         ELSE IF TooClose(new, existing_coords, min_distance)
         THEN UNCHANGED << synthetic, existing_coords >>
         ELSE /\ synthetic' = Append(synthetic,
                                [latitude |-> new[1], longitude |-> new[2]])
              /\ UNCHANGED existing_coords
    /\ UNCHANGED << pc, count, min_distance, walk >>
    /\ UNCHANGED assembler

\* one iteration of the while loop
GenIterate ==
    /\ pc \in {"gen1", "gen2"}
    /\ LoopCond(synthetic, count, attempts)
    /\ attempts' = attempts + 1
    /\ \E new \in Candidates(variant) :
         IF ~InBounds(new[1], new[2])
         THEN UNCHANGED << synthetic, existing_coords >>
         ELSE IF TooClose(new, existing_coords, min_distance)
         THEN UNCHANGED << synthetic, existing_coords >>
         ELSE /\ synthetic' = Append(synthetic,
                                [latitude |-> new[1], longitude |-> new[2]])
              /\ existing_coords' = Append(existing_coords, new)
    /\ UNCHANGED << pc, count, min_distance, walk >>
    /\ UNCHANGED assembler

\* the loop condition fails: print and return synthetic
GenExit ==
    /\ pc \in {"gen1", "gen2"}
    /\ ~LoopCond(synthetic, count, attempts)
    /\ pc' = IF pc = "gen1" THEN "ret1" ELSE "ret2"
    /\ UNCHANGED locals
    /\ UNCHANGED assembler

(* ---------------- residential and shopping assembler ---------------- *)

\* mutant of Fetch: no try block, a failing request leaves the script
FetchUnguarded ==
    /\ pc = "fetch"
    /\ variant \in {"residential", "shopping"}
    /\ \/ /\ status' = "ok"
          /\ data' \in Responses
          /\ pc' = "ingest"
       \/ /\ status' \in Failures
          /\ data' = <<>>
          /\ pc' = "crashed"
    /\ UNCHANGED << variant, coordinates, synthetic_coordinates, df,
                    more_synthetic, csv >>
    /\ UNCHANGED locals

\* try: requests.post, status check, response.json(); except: empty data
Fetch ==
    /\ pc = "fetch"
    /\ variant \in {"residential", "shopping"}
    /\ \/ /\ status' = "ok"
          /\ data' \in Responses
       \/ /\ status' \in Failures
          /\ data' = <<>>
    /\ pc' = "ingest"
    /\ UNCHANGED << variant, coordinates, synthetic_coordinates, df,
                    more_synthetic, csv >>
    /\ UNCHANGED locals

\* the loop that extracts the coordinates, one element per step; it is
\* outside the try block, so an exception in it leaves the script
Ingest ==
    /\ pc = "ingest"
    /\ IF data = <<>>
       THEN /\ pc' = "fill"
            /\ UNCHANGED << data, coordinates >>
       ELSE LET r == ExtractElement(Head(data), coordinates)
            IN  /\ coordinates' = r.coordinates
                /\ data' = Tail(data)
                /\ pc' = IF r.raised THEN "crashed" ELSE "ingest"
    /\ UNCHANGED << variant, status, synthetic_coordinates, df,
                    more_synthetic, csv >>
    /\ UNCHANGED locals

\* mutant of FirstPass: the generator is asked for min_locations points
FirstPassFullCount ==
    /\ pc = "fill"
    /\ IF Len(coordinates) < MinLocations
       THEN /\ Call(coordinates, MinLocations, DefaultMinDistance)
            /\ pc' = "gen1"
       ELSE /\ pc' = "dedup"
            /\ UNCHANGED locals
    /\ UNCHANGED assembler

\* if len(coordinates) < min_locations: call the generator
FirstPass ==
    /\ pc = "fill"
    /\ IF Len(coordinates) < MinLocations
       THEN /\ Call(coordinates, MinLocations - Len(coordinates),
                    DefaultMinDistance)
            /\ pc' = "gen1"
       ELSE /\ pc' = "dedup"
            /\ UNCHANGED locals
    /\ UNCHANGED assembler

\* synthetic_coordinates = generate_...(...); coordinates.extend(...)
Return1 ==
    /\ pc = "ret1"
    /\ synthetic_coordinates' = synthetic
    /\ coordinates' = coordinates \o synthetic
    /\ Leave
    /\ pc' = "dedup"
    /\ UNCHANGED << variant, status, data, df, more_synthetic, csv >>

\* mutant of Dedup: the second call is seeded with the list coordinates
DedupSeedsUndropped ==
    /\ pc = "dedup"
    /\ df' = drop_duplicates(coordinates)
    /\ IF Len(df') < MinLocations
       THEN /\ Call(coordinates, MinLocations - Len(df'), TopUpMinDistance)
            /\ pc' = "gen2"
       ELSE /\ pc' = "save"
            /\ UNCHANGED locals
    /\ UNCHANGED << variant, status, data, coordinates, synthetic_coordinates,
                    more_synthetic, csv >>

\* df = pd.DataFrame(coordinates); df.drop_duplicates(inplace=True);
\* if len(df) < min_locations: call the generator again
Dedup ==
    /\ pc = "dedup"
    /\ df' = drop_duplicates(coordinates)
    /\ IF Len(df') < MinLocations
       THEN /\ Call(to_dict_records(df'), MinLocations - Len(df'),
                    TopUpMinDistance)
            /\ pc' = "gen2"
       ELSE /\ pc' = "save"
            /\ UNCHANGED locals
    /\ UNCHANGED << variant, status, data, coordinates, synthetic_coordinates,
                    more_synthetic, csv >>

\* more_synthetic = generate_...(...); df = pd.concat([df, ...])
Return2 ==
    /\ pc = "ret2"
    /\ more_synthetic' = synthetic
    /\ df' = df \o synthetic
    /\ Leave
    /\ pc' = "save"
    /\ UNCHANGED << variant, status, data, coordinates, synthetic_coordinates,
                    csv >>

\* the residential script limits df to min_locations rows, the shopping
\* script does not; df.to_csv(...); return df
Save ==
    /\ pc = "save"
    /\ df' = IF variant = "residential" THEN head(df, MinLocations) ELSE df
    /\ csv' = df'
    /\ pc' = "done"
    /\ UNCHANGED << variant, status, data, coordinates, synthetic_coordinates,
                    more_synthetic >>
    /\ UNCHANGED locals

(* ---------------- educational assembler ---------------- *)

\* query_osm_educational_institutions / query_osm_additional_institutions:
\* the whole body is inside try, every failure returns []
QueryResult(elems) ==
    LET r == ExtractCoordinates(elems, <<>>)
    IN  IF r.raised THEN <<>> ELSE r.coordinates

\* osm_coordinates = query_osm_educational_institutions(); extend
\* additional_osm_coordinates = query_osm_additional_institutions(); extend
EduQuery ==
    /\ pc \in {"fetch", "query2"}
    /\ variant = "educational"
    /\ \/ /\ status' = "ok"
          /\ \E elems \in EduResponses :
                coordinates' = coordinates \o QueryResult(elems)
       \/ /\ status' \in Failures
          /\ UNCHANGED coordinates
    /\ pc' = IF pc = "fetch" THEN "query2" ELSE "known"
    /\ UNCHANGED << variant, data, synthetic_coordinates, df, more_synthetic,
                    csv >>
    /\ UNCHANGED locals

\* extend with get_known_institutions(); drop_duplicates; to_csv
EduFinish ==
    /\ pc = "known"
    /\ coordinates' = coordinates \o known_institutions
    /\ df' = drop_duplicates(coordinates')
    /\ csv' = df'
    /\ pc' = "done"
    /\ UNCHANGED << variant, status, data, synthetic_coordinates,
                    more_synthetic >>
    /\ UNCHANGED locals

Next ==
    \/ Fetch
    \/ Ingest
    \/ FirstPass
    \/ GenIterate
    \/ GenExit
    \/ Return1
    \/ Dedup
    \/ Return2
    \/ Save
    \/ EduQuery
    \/ EduFinish

Spec == Init /\ [][Next]_vars

\* the script is one sequential thread that always takes its next step
FairSpec == Spec /\ WF_vars(Next)

(* ---------------- the generator called by itself ---------------- *)

\* rows a seed list is built from: two inside the box, one outside
SeedPool ==
    { [latitude |-> 3, longitude |-> 3],
      [latitude |-> 2, longitude |-> 5],
      [latitude |-> 6, longitude |-> 4] }

\* generate_synthetic_coordinates(existing_coordinates, count, delhi_center,
\* radius_km, min_distance) of the residential or shopping script, at the
\* head of its loop; the caller keeps its seed list in coordinates
GenInit ==
    /\ variant \in {"residential", "shopping"}
    /\ pc = "gen1"
    /\ status = "none"
    /\ data = <<>>
    /\ coordinates \in SeqsUpTo(SeedPool, MaxSeeds)
    /\ synthetic_coordinates = <<>>
    /\ df = <<>>
    /\ more_synthetic = <<>>
    /\ csv = <<>>
    /\ count \in 0..MaxCount
    /\ min_distance \in {DefaultMinDistance, TopUpMinDistance}
    /\ existing_coords = ToTuples(coordinates)
    /\ synthetic = <<>>
    /\ attempts = 0
    /\ hub_list = commercial_hubs
    /\ rand_value = 0
    /\ selected_hub = commercial_hubs[1]

GenNext ==
    \/ GenIterate
    \/ GenExit

GenSpec == GenInit /\ [][GenNext]_vars

\* the loop has no suspension point: it always takes its next step
FairGenSpec == GenSpec /\ WF_vars(GenNext)

(* ---------------- the hub walk by itself ---------------- *)

\* hubs of the script the walked lists are built from
HubPool ==
    { commercial_hubs[1], commercial_hubs[2],
      [name |-> "Saket", center |-> <<2, 4>>, density |-> 8] }

HubLists == SeqsUpTo(HubPool, MaxHubs) \ {<<>>}

\* a hub list, rand_value = random.uniform(0, total_density) and
\* selected_hub = commercial_hubs[0], before the walk
HubInit ==
    /\ variant = "shopping"
    /\ pc = "walk"
    /\ status = "none"
    /\ data = <<>>
    /\ coordinates = <<>>
    /\ synthetic_coordinates = <<>>
    /\ df = <<>>
    /\ more_synthetic = <<>>
    /\ csv = <<>>
    /\ count = 0
    /\ min_distance = 0
    /\ existing_coords = <<>>
    /\ synthetic = <<>>
    /\ attempts = 0
    /\ hub_list \in HubLists
    /\ rand_value \in 0..SumDensity(hub_list)
    /\ selected_hub = hub_list[1]

\* the for loop over the hubs
HubWalk ==
    /\ pc = "walk"
    /\ selected_hub' = WalkHubs(hub_list, 0, rand_value, selected_hub)
    /\ pc' = "walked"
    /\ UNCHANGED << hub_list, rand_value, count, min_distance,
                    existing_coords, synthetic, attempts >>
    /\ UNCHANGED assembler

HubSpec == HubInit /\ [][HubWalk]_vars

(* ---------------- vocabulary of the claims ---------------- *)

\* the bounding box, stated on a row
InsideBox(p) ==
    /\ p.latitude \in LatMin..LatMax
    /\ p.longitude \in LonMin..LonMax

\* two rows are at least d lattice steps apart
FarApart(p, q, d) ==
    (p.latitude - q.latitude) * (p.latitude - q.latitude)
      + (p.longitude - q.longitude) * (p.longitude - q.longitude) >= d * d

\* a generator call is in progress or about to return
InGenerator == pc \in {"gen1", "gen2", "ret1", "ret2"}

\* the generator is at its return statement
AtReturn == pc \in {"ret1", "ret2"}

\* the seed points the caller passed to the running call
Seeds == IF pc \in {"gen1", "ret1"} THEN coordinates ELSE df

\* rows that came out of the two generator calls of the run
Generated == Range(synthetic_coordinates) \cup Range(more_synthetic)

\* the rows the run took from the response
FetchedPoints ==
    SubSeq(coordinates, 1, Len(coordinates) - Len(synthetic_coordinates))

Generating == variant \in {"residential", "shopping"}

(* ---------------- C1 ---------------- *)

\* C1: every point the generator has accepted or returned, in the residential
\* and in the shopping script, lies inside the bounding box
C1_BoundaryProperty ==
    \A p \in Range(synthetic) \cup Generated : InsideBox(p)

\* the shopping generator returns after rejecting a candidate, with the
\* point (3, 2) that only its hub branch draws and a point off the hubs
C1_Witness ==
    /\ AtReturn
    /\ variant = "shopping"
    /\ attempts > Len(synthetic)
    /\ [latitude |-> 3, longitude |-> 2] \in Range(synthetic)
    /\ [latitude |-> 4, longitude |-> 5] \in Range(synthetic)

(* ---------------- C2 ---------------- *)

\* C2: in one call every accepted point is at least min_distance from every
\* seed point and from every point accepted before it
C2_SpacingProperty ==
    InGenerator =>
      \A i \in DOMAIN synthetic :
        /\ \A j \in 1..(i - 1) : FarApart(synthetic[i], synthetic[j], min_distance)
        /\ \A k \in DOMAIN Seeds : FarApart(synthetic[i], Seeds[k], min_distance)

\* a call with a seed point returns two points after a rejection
C2_Witness ==
    /\ AtReturn
    /\ Seeds # <<>>
    /\ Len(synthetic) >= 2
    /\ attempts > Len(synthetic)

(* ---------------- C3 ---------------- *)

\* C3: the generator never holds more than count points; it returns fewer
\* than count only with all count * 5 attempts used; and when no candidate
\* was rejected it returns exactly count points
C3_CountBound ==
    /\ Len(synthetic) <= count
    /\ AtReturn =>
         /\ Len(synthetic) < count => attempts = count * AttemptFactor
         /\ attempts = Len(synthetic) => Len(synthetic) = count

\* a call returns some points, but fewer than it was asked for
C3_Witness ==
    /\ AtReturn
    /\ 0 < Len(synthetic)
    /\ Len(synthetic) < count

(* ---------------- C4 ---------------- *)

\* C4 as stated: every row written by the residential or shopping script
\* lies inside the bounding box
C4_OutputInsideBox ==
    (pc = "done" /\ Generating) => \A i \in DOMAIN csv : InsideBox(csv[i])

\* C4 as amended: every row written is inside the bounding box unless it is
\* one of the rows taken from the response, which are written as fetched
C4_GeneratedOutputInsideBox ==
    (pc = "done" /\ Generating) =>
      \A i \in DOMAIN csv : InsideBox(csv[i]) \/ csv[i] \in Range(FetchedPoints)

\* the output holds a fetched row outside the box next to generated rows
C4_Witness ==
    /\ pc = "done"
    /\ Generating
    /\ \E i \in DOMAIN csv : csv[i] \in Range(FetchedPoints) /\ ~InsideBox(csv[i])
    /\ \E i \in DOMAIN csv : csv[i] \in Generated

(* ---------------- C5 ---------------- *)

\* C5: in the output, two generated rows are at least the default minimum
\* distance apart, and at least the top-up minimum distance apart when one
\* of them came from the second call
C5_OutputSpacing ==
    (pc = "done" /\ Generating) =>
      \A i, j \in DOMAIN csv :
        (i < j /\ csv[i] \in Generated /\ csv[j] \in Generated) =>
          /\ FarApart(csv[i], csv[j], DefaultMinDistance)
          /\ (csv[i] \in Range(more_synthetic) \/ csv[j] \in Range(more_synthetic))
               => FarApart(csv[i], csv[j], TopUpMinDistance)

\* the residential output holds two rows of the first call and one of the second
C5_Witness ==
    /\ pc = "done"
    /\ variant = "residential"
    /\ Len(synthetic_coordinates) = 2
    /\ Len(more_synthetic) = 1
    /\ Range(synthetic_coordinates) \cup Range(more_synthetic) \subseteq Range(csv)

(* ---------------- C6 ---------------- *)

\* the rows of s that no earlier row of s equals, in order
FirstOccurrences(s) ==
    LET keep == { i \in DOMAIN s : \A j \in 1..(i - 1) : s[j] # s[i] }
        pos[n \in 0..Len(s)] ==
            IF n = 0 THEN <<>>
            ELSE IF n \in keep THEN Append(pos[n - 1], s[n]) ELSE pos[n - 1]
    IN  pos[Len(s)]

\* C6 as stated: both scripts write at most min_locations rows, the first
\* min_locations rows of the deduplicated set when it is longer
C6_TruncatesToTarget ==
    (pc = "done" /\ Generating) =>
      LET D == FirstOccurrences(coordinates)
      IN  /\ Len(csv) <= MinLocations
          /\ Len(D) > MinLocations => csv = SubSeq(D, 1, MinLocations)

\* C6 as amended: the residential script does so; the shopping script writes
\* the whole deduplicated set, longer than min_locations when that set is
C6_ResidentialTruncates ==
    (pc = "done" /\ Generating) =>
      LET D == FirstOccurrences(coordinates)
      IN  /\ variant = "residential" =>
               /\ Len(csv) <= MinLocations
               /\ Len(D) > MinLocations => csv = SubSeq(D, 1, MinLocations)
          /\ variant = "shopping" =>
               /\ Len(D) > MinLocations => csv = D
               /\ Len(D) <= MinLocations => Len(csv) <= MinLocations

\* the residential script has cut a longer deduplicated set
C6_Witness ==
    /\ pc = "done"
    /\ variant = "residential"
    /\ Len(FirstOccurrences(coordinates)) > MinLocations
    /\ Len(csv) = MinLocations

(* ---------------- C7 ---------------- *)

\* C7: after a failed fetch the script has not been left by an exception, it
\* works on no fetched row, and it goes on to write its output
C7_FetchFailureContained ==
    /\ [](status \in Failures =>
            /\ pc # "crashed"
            /\ Generating => (data = <<>> /\ FetchedPoints = <<>>))
    /\ (status \in Failures ~> pc = "done")

\* a residential run whose request failed has written generated rows
C7_Witness ==
    /\ pc = "done"
    /\ variant = "residential"
    /\ status = "request_error"
    /\ csv # <<>>
    /\ Range(csv) \subseteq Generated

(* ---------------- C8 ---------------- *)

\* C8: with no fetched row the output has exactly min_locations rows, all
\* of them generated
C8_DegradedFullDataset ==
    (pc = "done" /\ Generating /\ FetchedPoints = <<>>) =>
      /\ Len(csv) = MinLocations
      /\ Range(csv) \subseteq Generated

(* ---------------- C9 ---------------- *)

\* both coordinates of an element are there and are not null
BothPresent(e) == e.lat.k = "num" /\ e.lon.k = "num"

\* C9: a step of the extraction loop raises nothing, keeps the rows it has,
\* and adds the element's row exactly when both coordinates are present
C9_MalformedDropped ==
    [][(pc = "ingest" /\ data # <<>>) =>
         /\ pc' # "crashed"
         /\ coordinates' =
              IF BothPresent(Head(data))
              THEN Append(coordinates, [latitude |-> Head(data).lat.v,
                                        longitude |-> Head(data).lon.v])
              ELSE coordinates]_vars

(* ---------------- C10 ---------------- *)

\* C10: no two rows of the output of any script are equal
C10_NoDuplicateOutput ==
    pc = "done" => \A i, j \in DOMAIN csv : i < j => csv[i] # csv[j]

\* the response repeated a place and the second generator call added a row
C10_Witness ==
    /\ pc = "done"
    /\ Generating
    /\ Len(FirstOccurrences(FetchedPoints)) < Len(FetchedPoints)
    /\ more_synthetic # <<>>

(* ---------------- C11 ---------------- *)

\* sum of the densities of the first k hubs
CumulativeWeight(hubs, k) ==
    LET sum[n \in 0..k] == IF n = 0 THEN 0 ELSE sum[n - 1] + hubs[n].density
    IN  sum[k]

\* C11 as stated: for rand_value below the total, the hub selected is the
\* first whose cumulative density exceeds rand_value
C11_FirstHubExceeding ==
    (pc = "walked" /\ rand_value < CumulativeWeight(hub_list, Len(hub_list))) =>
      \E k \in DOMAIN hub_list :
        /\ selected_hub = hub_list[k]
        /\ CumulativeWeight(hub_list, k) > rand_value
        /\ \A j \in 1..(k - 1) : CumulativeWeight(hub_list, j) <= rand_value

\* C11 as amended: the hub selected is the first whose cumulative density is
\* greater than or equal to rand_value
C11_FirstHubReaching ==
    pc = "walked" =>
      \E k \in DOMAIN hub_list :
        /\ selected_hub = hub_list[k]
        /\ CumulativeWeight(hub_list, k) >= rand_value
        /\ \A j \in 1..(k - 1) : CumulativeWeight(hub_list, j) < rand_value

\* rand_value is the cumulative density of the first of the script's two
\* modelled hubs, and that first hub is selected
C11_Witness ==
    /\ pc = "walked"
    /\ hub_list = commercial_hubs
    /\ rand_value = hub_list[1].density
    /\ selected_hub = hub_list[1]

(* ---------------- C13 ---------------- *)

\* rows as (latitude, longitude) pairs
TuplesOf(rows) ==
    [i \in DOMAIN rows |-> <<rows[i].latitude, rows[i].longitude>>]

\* the step after the queries of a script have been processed
FetchComplete == pc = "fill" \/ (variant = "educational" /\ pc = "known")

\* the step enters the generator, seeded with rows, for n points
EntersGenerator(rows, n) ==
    /\ pc' \in {"gen1", "gen2"}
    /\ count' = n
    /\ existing_coords' = TuplesOf(rows)
    /\ synthetic' = <<>>
    /\ attempts' = 0

\* C13 as stated: in each of the three scripts, fewer fetched rows than
\* min_locations make the next step a generator call, seeded with the
\* fetched rows, for the rows that are missing
C13_EveryCategoryFills ==
    [][(FetchComplete /\ Len(coordinates) < MinLocations) =>
         EntersGenerator(coordinates, MinLocations - Len(coordinates))]_vars

\* C13 as amended: the residential and the shopping script do so; the
\* educational script never calls a generator
C13_GeneratingScriptsFill ==
    /\ [][(Generating /\ pc = "fill" /\ Len(coordinates) < MinLocations) =>
            EntersGenerator(coordinates, MinLocations - Len(coordinates))]_vars
    /\ [](variant = "educational" =>
            (~InGenerator /\ synthetic = <<>> /\ Generated = {}))

\* the shopping script has just called the generator with one fetched row
\* as seed, for the two rows that are missing
C13_Witness ==
    /\ pc = "gen1"
    /\ variant = "shopping"
    /\ attempts = 0
    /\ Len(coordinates) = 1
    /\ existing_coords = TuplesOf(coordinates)
    /\ count = MinLocations - 1

(* ---------------- C14 ---------------- *)

\* order of the positions of a run
Rank(p) ==
    CASE p = "fetch" -> 0
      [] p \in {"ingest", "query2"} -> 1
      [] p \in {"fill", "known"} -> 2
      [] p = "gen1" -> 3
      [] p = "ret1" -> 4
      [] p = "dedup" -> 5
      [] p = "gen2" -> 6
      [] p = "ret2" -> 7
      [] p = "save" -> 8
      [] OTHER -> 9

\* C14: a run never goes back; the first generator call is entered only
\* from the test of the fetched count, before any deduplication, when that
\* count is below min_locations; the second only from the deduplication,
\* when the deduplicated count is below min_locations, seeded with the
\* deduplicated rows and for exactly the missing number; and with
\* min_locations distinct fetched rows no generator call is made
C14_GeneratorCalls ==
    /\ [][Rank(pc') >= Rank(pc)]_vars
    /\ [][(pc' = "gen1" /\ pc # "gen1") =>
            /\ pc = "fill"
            /\ Len(coordinates) < MinLocations
            /\ df = <<>>
            /\ EntersGenerator(coordinates, MinLocations - Len(coordinates))]_vars
    /\ [][(pc' = "gen2" /\ pc # "gen2") =>
            /\ pc = "dedup"
            /\ df' = FirstOccurrences(coordinates)
            /\ Len(df') < MinLocations
            /\ EntersGenerator(df', MinLocations - Len(df'))]_vars
    /\ [](Len(FirstOccurrences(FetchedPoints)) >= MinLocations =>
            (~InGenerator /\ Generated = {}))

\* the second call has just been made, after a first call that returned a
\* row and a deduplication that dropped a repeated fetched row
C14_Witness ==
    /\ pc = "gen2"
    /\ attempts = 0
    /\ synthetic_coordinates # <<>>
    /\ Len(df) < Len(coordinates)
    /\ existing_coords = TuplesOf(df)
    /\ count = MinLocations - Len(df)

(* ---------------- C15 ---------------- *)

\* C15: a generator call reaches its return statement; the attempts never
\* exceed 5 * count; every step that stays in the loop adds exactly one
\* attempt and the step that leaves it adds none; and with count = 0 no
\* attempt is made and the result is empty
C15_LoopTerminates ==
    /\ <>(pc = "ret1")
    /\ [](attempts <= count * AttemptFactor)
    /\ [][pc = "gen1" =>
            IF pc' = "gen1" THEN attempts' = attempts + 1
            ELSE attempts' = attempts]_vars
    /\ [](count = 0 => (attempts = 0 /\ synthetic = <<>>))

\* a call for two points returns one, with its ten attempts used
C15_Witness ==
    /\ pc = "ret1"
    /\ count = 2
    /\ attempts = 10
    /\ Len(synthetic) = 1

(* ---------------- C16 ---------------- *)

\* a step taken inside the loop: the caller's lists are left alone, and
\* either neither list of the generator changes or one and the same point is
\* appended to both
C16_LoopStep ==
    pc \in {"gen1", "gen2"} =>
        /\ coordinates' = coordinates
        /\ df' = df
        /\ \/ /\ synthetic' = synthetic
              /\ existing_coords' = existing_coords
           \/ /\ Len(synthetic') = Len(synthetic) + 1
              /\ SubSeq(synthetic', 1, Len(synthetic)) = synthetic
              /\ existing_coords' =
                   Append(existing_coords, TuplesOf(<< synthetic'[Len(synthetic')] >>)[1])

\* C16: during a call the working list is the seed rows followed by the
\* accepted rows; a step of the loop leaves the caller's lists alone and
\* either changes neither list of the generator or appends one and the
\* same point to both
C16_WorkingList ==
    /\ [](InGenerator =>
            existing_coords = TuplesOf(Seeds) \o TuplesOf(synthetic))
    /\ [][C16_LoopStep]_vars

\* a call with a seed row has rejected a candidate and accepted two
C16_Witness ==
    /\ pc \in {"gen1", "gen2"}
    /\ Seeds # <<>>
    /\ Len(synthetic) = 2
    /\ attempts > 2
    /\ Len(existing_coords) = Len(Seeds) + 2

====
